---- MODULE Spec2Model ----
(***************************************************************************)
(* Model of kwess.Trader (src/kwess/__init__.py): the credential lifecycle *)
(* (construction, get_new_refresh_token, _get_accounts), the endpoint      *)
(* methods' error handling and the account lookup.                         *)
(*                                                                         *)
(* Time is counted in ticks; TicksPerSec ticks make one second, so that a  *)
(* datetime has a sub-second part (the microseconds of dt.now()).          *)
(* Strings that the code slices or strips are sequences: a token string is *)
(* a sequence of naturals in which 0 stands for a whitespace character,    *)
(* the api_server URL is a sequence of characters.                         *)
(***************************************************************************)
EXTENDS Integers, Sequences, FiniteSets, TLC

\* ---------------------------------------------------------------- bounds
MaxClock == 3
MaxTok == 3

\* --------------------------------------------------------------- scales
\* the resolution of dt.now(): ticks in one second
TicksPerSec == 2

\* the lifetimes (seconds) the authorization server declares in expires_in
ExpiresInChoices == {1}

\* ------------------------------------------------------- string helpers
WS == 0

RECURSIVE LStrip(_)
LStrip(s) == IF s # <<>> /\ Head(s) = WS THEN LStrip(Tail(s)) ELSE s

RECURSIVE RStrip(_)
RStrip(s) ==
  IF s # <<>> /\ s[Len(s)] = WS THEN RStrip(SubSeq(s, 1, Len(s) - 1)) ELSE s

\* variant of Strip: the content of the file used as it is
Strip_none(s) == s

\* str.strip() of line 77
Strip(s) == RStrip(LStrip(s))

\* the slice [:-1] of lines 57 and 113
StripLast(s) == SubSeq(s, 1, Len(s) - 1)

\* the api_server the authorization server hands out, with its trailing slash
ApiUrl == <<"a", "p", "i", "/">>

Lower(c) == CASE c = "T" -> "t" [] c = "M" -> "m" [] OTHER -> c

\* variant of LowerStr: the types compared as they are written
LowerStr_asis(s) == s

\* str.lower() of line 361
LowerStr(s) == [i \in 1..Len(s) |-> Lower(s[i])]

\* ------------------------------------------------------------ datetimes
\* str(self.expiry_date)[:-7] of line 129: the slice removes ".ffffff"; when
\* the microseconds are zero str() prints none and the slice eats ":MM:SS"
\* and a digit of the hour, leaving a string strptime cannot parse.
FormatExpiry(t) ==
  IF t % TicksPerSec # 0
    THEN [ok |-> TRUE, sec |-> t \div TicksPerSec]
    ELSE [ok |-> FALSE, sec |-> 0]

\* dt.strptime(self.expiry_date, '%Y-%m-%d %X') of line 61
ParseOk(s) == s.ok
ParseExpiry(s) == s.sec * TicksPerSec

\* variant of IsLive: the expiry test left out
IsLive_always(dto, now) == TRUE

\* variant of IsLive: a record expiring at this very instant taken as expired
IsLive_strict(dto, now) == dto > now

\* dto >= now of line 63
IsLive(dto, now) == dto >= now

\* now + td(seconds=self.expires_in) of line 128
ExpiryOf(now, expires_in) == now + expires_in * TicksPerSec

\* ---------------------------------------------------------------- values
NoRd ==
  [access_token |-> <<>>, token_type |-> "", api_server |-> <<>>,
   refresh_token |-> <<>>, expires_in |-> 0,
   expiry_date |-> [ok |-> FALSE, sec |-> 0]]

AtMissing == [kind |-> "missing", rd |-> NoRd]
AtCorrupt == [kind |-> "corrupt", rd |-> NoRd]
AtJson(rd) == [kind |-> "json", rd |-> rd]

RtMissing == [exists |-> FALSE, content |-> <<>>]
RtFile(s) == [exists |-> TRUE, content |-> s]

NoDate == [kind |-> "unset", t |-> 0]

\* the attributes of a Trader object before __init__ has set any
BlankMem ==
  [access_token |-> <<>>, token_type |-> "", api_server |-> <<>>,
   refresh_token |-> <<>>, expires_in |-> 0, expiry_date |-> NoDate,
   userid |-> 0, accounts |-> <<>>, has_accounts |-> FALSE]

\* an entry of an operation's log: a request or a file access, the token it
\* carried, how it ended and, for an authenticated request, the expiry_date
\* the object held when it was sent
Ev(e, tok, res) == [ev |-> e, tok |-> tok, res |-> res, exp |-> NoDate]
ApiEv(m, res) ==
  [ev |-> "api", tok |-> m.access_token, res |-> res, exp |-> m.expiry_date]

\* the account list the resource server answers GET v1/accounts with
ServerAccounts ==
  << [type |-> <<"M">>, number |-> 2], [type |-> <<"t">>, number |-> 3],
     [type |-> <<"T">>, number |-> 4] >>

AccountTypes == { <<"T">>, <<"t">>, <<"m">>, <<"x">> }

NetOutcomes == {"deliver", "lost_req", "lost_resp"}
ApiOutcomes == {"ok", "http", "noresp"}
RtWrites == {"ok", "open_fail"}
AtWrites == {"ok", "open_fail", "dump_fail"}

VARIABLES clock, rt_file, at_file, srv, proc, mem, lastOp, gen

vars == <<clock, rt_file, at_file, srv, proc, mem, lastOp, gen>>

\* gen is the generator object a call of a @get_all operation returned (its
\* frame: the local variables of inner and the line it is suspended at),
\* with the queries its body has made; NoGen until such a call is made.
NoGen ==
  [pc |-> "none", calls |-> 0, arg_start |-> 0, end_none |-> FALSE,
   startdatetime |-> 0, enddatetime |-> 0, idt |-> 0, queries |-> <<>>,
   taken |-> 0, earlier |-> 0, total |-> 0, called_at |-> 0]

\* ------------------------------------------------- authorization server
\* The authorization server answering the token exchange of line 102: a
\* token is accepted once, every token that reaches the server is
\* invalidated, and an accepted exchange issues a fresh pair.  net says
\* whether the request and the response get through.
ServerInit(valid, next) ==
  [valid |-> valid, next |-> next, presented |-> {}, exchanged |-> {},
   dup |-> FALSE]

ServerBody(n, ei) ==
  [access_token |-> <<n>>, token_type |-> "Bearer", api_server |-> ApiUrl,
   refresh_token |-> <<n>>, expires_in |-> ei,
   expiry_date |-> [ok |-> FALSE, sec |-> 0]]

ExchangeRequest(sv, token, net, ei) ==
  IF net = "lost_req"
    THEN [srv |-> sv, status |-> "noresp", body |-> NoRd]
    ELSE IF token \in sv.valid
      THEN [srv |-> [valid |-> (sv.valid \ {token}) \cup {<<sv.next>>},
                     next |-> sv.next + 1,
                     presented |-> sv.presented \cup {token},
                     exchanged |-> sv.exchanged \cup {token},
                     dup |-> sv.dup \/ token \in sv.exchanged],
            status |-> IF net = "deliver" THEN "ok" ELSE "noresp",
            body |-> IF net = "deliver" THEN ServerBody(sv.next, ei) ELSE NoRd]
      ELSE [srv |-> [sv EXCEPT !.presented = @ \cup {token}],
            status |-> IF net = "deliver" THEN "http" ELSE "noresp",
            body |-> NoRd]

\* ------------------------------------------------ get_new_refresh_token
\* variant of ExchangeError: raise_for_status() left out, so that an error
\* response is parsed like a success
ExchangeError_nostatus(status) ==
  IF status = "noresp" THEN "UnboundLocalError" ELSE "none"

\* lines 101-108: what the call does with the response status
\*   ok     -> goes on to line 110
\*   http   -> raise_for_status raises, the handler prints and raises Exception
\*   noresp -> requests.get raises, resp is unbound in the handler:
\*             UnboundLocalError
ExchangeError(status) ==
  CASE status = "ok" -> "none"
    [] status = "http" -> "Exception"
    [] OTHER -> "UnboundLocalError"

\* variant of StoreResponse: the assignment of line 113 left out, the token
\* just presented kept as self.refresh_token
StoreResponse_keep(m, rd) ==
  [m EXCEPT !.access_token = rd.access_token,
            !.token_type = rd.token_type,
            !.api_server = StripLast(rd.api_server),
            !.expires_in = rd.expires_in]

\* lines 110-115
StoreResponse(m, rd) ==
  [m EXCEPT !.access_token = rd.access_token,
            !.token_type = rd.token_type,
            !.api_server = StripLast(rd.api_server),
            !.refresh_token = rd.refresh_token,
            !.expires_in = rd.expires_in]

\* lines 119-124: the refresh-token file after the write
WriteRtFile(rt, m, rtw) ==
  IF rtw = "ok" THEN RtFile(m.refresh_token) ELSE rt

\* lines 126-128: expiry_date is assigned inside the with block, so only
\* once accessToken.json has been opened for writing
StoreExpiry(m, atw, now) ==
  IF atw = "open_fail"
    THEN m
    ELSE [m EXCEPT !.expiry_date =
            [kind |-> "datetime", t |-> ExpiryOf(now, m.expires_in)]]

\* variant of WriteAtFile: the api_server of the object, already without
\* its last character, written in place of the one of the response
WriteAtFile_stripped(at, rd, m, atw, now) ==
  CASE atw = "ok" ->
         AtJson([rd EXCEPT !.api_server = m.api_server,
                           !.expiry_date =
                              FormatExpiry(ExpiryOf(now, m.expires_in))])
    [] atw = "open_fail" -> at
    [] OTHER -> AtCorrupt

\* lines 126-130: accessToken.json after the write
WriteAtFile(at, rd, m, atw, now) ==
  CASE atw = "ok" ->
         AtJson([rd EXCEPT !.expiry_date =
                   FormatExpiry(ExpiryOf(now, m.expires_in))])
    [] atw = "open_fail" -> at
    [] OTHER -> AtCorrupt

\* variant of PersistError: the failure of the accessToken.json write only
\* reported, like the failure of the rt_file write
PersistError_swallow(atw) == "returned"

\* lines 131-134
PersistError(atw) == IF atw = "ok" THEN "returned" ELSE "Exception"

\* variant of GetNewRefreshToken: accessToken.json written first, so that a
\* failure of that write leaves the rt_file holding the token just spent
GetNewRefreshToken_atfirst(m, rt, at, sv, token, e, now) ==
  LET x == ExchangeRequest(sv, token, e.net, e.ei)
      req == <<Ev("exchange", token, x.status)>>
  IN IF ExchangeError(x.status) # "none"
       THEN [mem |-> m, rt |-> rt, at |-> at, srv |-> x.srv,
             outcome |-> ExchangeError(x.status), log |-> req]
       ELSE LET m1 == StoreResponse(m, x.body)
                rt1 == IF e.atw = "ok" THEN WriteRtFile(rt, m1, e.rtw) ELSE rt
                m2 == StoreExpiry(m1, e.atw, now)
                at1 == WriteAtFile(at, x.body, m1, e.atw, now)
            IN [mem |-> m2, rt |-> rt1, at |-> at1, srv |-> x.srv,
                outcome |-> PersistError(e.atw),
                log |-> req \o <<Ev("write_rt", m1.refresh_token, e.rtw),
                                 Ev("write_at", <<>>, e.atw)>>]

\* lines 88-134
GetNewRefreshToken(m, rt, at, sv, token, e, now) ==
  LET x == ExchangeRequest(sv, token, e.net, e.ei)
      req == <<Ev("exchange", token, x.status)>>
  IN IF ExchangeError(x.status) # "none"
       THEN [mem |-> m, rt |-> rt, at |-> at, srv |-> x.srv,
             outcome |-> ExchangeError(x.status), log |-> req]
       ELSE LET m1 == StoreResponse(m, x.body)
                rt1 == WriteRtFile(rt, m1, e.rtw)
                m2 == StoreExpiry(m1, e.atw, now)
                at1 == WriteAtFile(at, x.body, m1, e.atw, now)
            IN [mem |-> m2, rt |-> rt1, at |-> at1, srv |-> x.srv,
                outcome |-> PersistError(e.atw),
                log |-> req \o <<Ev("write_rt", m1.refresh_token, e.rtw),
                                 Ev("write_at", <<>>, e.atw)>>]

\* --------------------------------------------------------- _get_accounts
UserId == 7

\* variant of ApiError: an error status raised to the caller instead of
\* handed to _report_and_exit
ApiError_raise(res) ==
  CASE res = "ok" -> "returned"
    [] res = "http" -> "Exception"
    [] OTHER -> "UnboundLocalError"

\* lines 158-162: ok -> goes on; http -> _report_and_exit (sys.exit);
\* noresp -> resp is unbound when the arguments of _report_and_exit are
\* evaluated: UnboundLocalError
ApiError(res) ==
  CASE res = "ok" -> "returned"
    [] res = "http" -> "SystemExit"
    [] OTHER -> "UnboundLocalError"

\* variant of GetAccounts: the user id taken before the status of the
\* response is looked at, so that a failed fetch changes the object
GetAccounts_early(m, res) ==
  [mem |-> IF ApiError(res) = "returned"
             THEN [m EXCEPT !.userid = UserId, !.accounts = ServerAccounts,
                            !.has_accounts = TRUE]
             ELSE [m EXCEPT !.userid = UserId],
   outcome |-> ApiError(res),
   log |-> <<ApiEv(m, res)>>]

\* lines 149-165
GetAccounts(m, res) ==
  [mem |-> IF ApiError(res) = "returned"
             THEN [m EXCEPT !.userid = UserId, !.accounts = ServerAccounts,
                            !.has_accounts = TRUE]
             ELSE m,
   outcome |-> ApiError(res),
   log |-> <<ApiEv(m, res)>>]

\* ---------------------------------------------------- find_account_number
NoAccount == 0

RECURSIVE FindFrom(_, _, _)
FindFrom(accts, t, i) ==
  IF i > Len(accts) THEN NoAccount
  ELSE IF LowerStr(t) = LowerStr(accts[i].type) THEN accts[i].number
  ELSE FindFrom(accts, t, i + 1)

\* lines 351-363
FindAccountNumber(m, t) == FindFrom(m.accounts, t, 1)

\* -------------------------------------------------------------- __init__
\* lines 55-60: the attributes taken from the persisted record
LoadRecord(m, rd) ==
  [m EXCEPT !.access_token = rd.access_token,
            !.token_type = rd.token_type,
            !.api_server = StripLast(rd.api_server),
            !.refresh_token = rd.refresh_token,
            !.expires_in = rd.expires_in,
            !.expiry_date =
               IF ParseOk(rd.expiry_date)
                 THEN [kind |-> "str", t |-> ParseExpiry(rd.expiry_date)]
                 ELSE [kind |-> "badstr", t |-> 0]]

\* variant of ReAuthOutcome: the handler of lines 82-85 left out, so that
\* the exception reaches the caller of Trader(...)
ReAuthOutcome_propagate(o) == o

\* line 82-85: the handler of the re-authentication block catches Exception
\* and calls sys.exit(1); a SystemExit raised inside it by _report_and_exit
\* is not an Exception and ends the process as well
ReAuthOutcome(o) == IF o = "returned" THEN "returned" ELSE "SystemExit"

\* lines 74-85: the re-authentication path of the constructor
ReAuth(m, rt, at, sv, e, now, log) ==
  IF ~rt.exists
    THEN [mem |-> m, rt |-> rt, at |-> at, srv |-> sv,
          outcome |-> ReAuthOutcome("FileNotFoundError"),
          log |-> log \o <<Ev("read_rt", <<>>, "open_fail")>>]
    ELSE LET m1 == [m EXCEPT !.refresh_token = Strip(rt.content)]
             g == GetNewRefreshToken(m1, rt, at, sv, m1.refresh_token, e, now)
             log1 == log \o <<Ev("read_rt", rt.content, "ok")>> \o g.log
         IN IF g.outcome # "returned"
              THEN [g EXCEPT !.outcome = ReAuthOutcome(g.outcome),
                             !.log = log1]
              ELSE LET a == GetAccounts(g.mem, e.res2)
                   IN [mem |-> a.mem, rt |-> g.rt, at |-> g.at, srv |-> g.srv,
                       outcome |-> ReAuthOutcome(a.outcome),
                       log |-> log1 \o a.log]

\* variant of ConfirmFallsThrough: "except Exception" in place of the bare
\* except, which lets the SystemExit of _report_and_exit through
ConfirmFallsThrough_exception(o) == o # "SystemExit"

\* lines 64-74: the bare except of line 70 around the confirming call
\* catches every failure of _get_accounts, SystemExit included, and raises
\* Exception, which the bare except of line 74 catches
ConfirmFallsThrough(o) == TRUE

\* lines 12-85
TraderInit(rt, at, sv, e, now) ==
  LET log0 == <<Ev("read_at", <<>>, at.kind)>>
  IN IF at.kind # "json"
       THEN ReAuth(BlankMem, rt, at, sv, e, now, log0)
       ELSE LET m1 == LoadRecord(BlankMem, at.rd)
            IN IF ~ParseOk(at.rd.expiry_date)
                 THEN ReAuth(m1, rt, at, sv, e, now, log0)
                 ELSE IF IsLive(ParseExpiry(at.rd.expiry_date), now)
                   THEN LET a == GetAccounts(m1, e.confirm)
                        IN IF a.outcome = "returned"
                             THEN [mem |-> a.mem, rt |-> rt, at |-> at,
                                   srv |-> sv, outcome |-> "returned",
                                   log |-> log0 \o a.log]
                             ELSE IF ConfirmFallsThrough(a.outcome)
                               THEN ReAuth(m1, rt, at, sv, e, now,
                                           log0 \o a.log)
                               ELSE [mem |-> a.mem, rt |-> rt, at |-> at,
                                     srv |-> sv, outcome |-> a.outcome,
                                     log |-> log0 \o a.log]
                   ELSE ReAuth(m1, rt, at, sv, e, now, log0)

\* ------------------------------------------------------ endpoint methods
\* lines 574-587 (get_server_time): one authenticated request, no look at
\* expiry_date before it
GetServerTime(m, res) ==
  [outcome |-> ApiError(res), log |-> <<ApiEv(m, res)>>]

\* lines 543-560 (get_account_positions)
GetAccountPositions(m, t, res) ==
  IF FindAccountNumber(m, t) = NoAccount
    THEN [outcome |-> "SystemExit", log |-> <<>>]
    ELSE [outcome |-> ApiError(res), log |-> <<ApiEv(m, res)>>]

\* ------------------------------------------------------------ the system
\* what the environment decides during a token exchange: the network, the
\* lifetime the server declares, the two file writes
ExchangeInputs ==
  [net : NetOutcomes,  ei : ExpiresInChoices, rtw : RtWrites, atw : AtWrites]

\* ... and during a construction: also the two accounts requests
InitInputs ==
  [confirm : ApiOutcomes, res2 : ApiOutcomes,
   net : NetOutcomes,  ei : ExpiresInChoices, rtw : RtWrites, atw : AtWrites]

Has(log, e) == \E i \in DOMAIN log : log[i].ev = e

\* An input the run never consumed (the outcome of a request it did not
\* send, of a write it did not attempt) is held at "ok" / "deliver", so
\* that one run of the code is one step of the model, not one step for
\* every value of an input that played no part.
ExchangeInputsUsed(e, log) ==
  /\ ~Has(log, "exchange") => e.net = "deliver"
  /\ ~Has(log, "write_rt") => e.rtw = "ok"
  /\ ~Has(log, "write_at") => e.atw = "ok"

InitInputsUsed(e, log) ==
  /\ ExchangeInputsUsed(e, log)
  /\ ~(Len(log) >= 2 /\ log[2].ev = "api") => e.confirm = "ok"
  /\ ~(Has(log, "write_at") /\ log[Len(log)].ev = "api") => e.res2 = "ok"

\* lastOp is the record of the operation that has just completed: what it
\* was called with, the requests and file accesses it made in order, how it
\* ended, what it returned (ret, for find_account_number) and the object's
\* attributes before and after.  A step of the environment clears it.
NoOp ==
  [op |-> "none", outcome |-> "none", log |-> <<>>, now |-> 0, arg |-> <<>>,
   pre_mem |-> BlankMem, pre_rt |-> RtMissing, pre_at |-> AtMissing,
   pre_presented |-> {}, post_mem |-> BlankMem, ret |-> NoAccount]

Op(name, outcome, log, arg, post) ==
  [op |-> name, outcome |-> outcome, log |-> log, now |-> clock, arg |-> arg,
   pre_mem |-> mem, pre_rt |-> rt_file, pre_at |-> at_file,
   pre_presented |-> srv.presented, post_mem |-> post, ret |-> NoAccount]

\* the state before any Trader has been created and before the user has
\* generated a token: neither file exists
Init ==
  /\ clock = 0
  /\ at_file = AtMissing
  /\ rt_file = RtMissing
  /\ srv = ServerInit({}, 1)
  /\ proc = "down"
  /\ mem = BlankMem
  /\ lastOp = NoOp
  /\ gen = NoGen

\* time passes
Tick ==
  /\ clock < MaxClock
  /\ clock' = clock + 1
  /\ lastOp' = NoOp
  /\ UNCHANGED <<rt_file, at_file, srv, proc, mem, gen>>

\* the user generates a token for manual authorization at the APP HUB and
\* saves it in the rt_file (docstring lines 29-31)
MintBootstrap ==
  /\ proc = "down"
  /\ srv.next <= MaxTok
  /\ \E nl \in {<<>>, <<WS>>} :
       rt_file' = RtFile(<<srv.next>> \o nl)
  /\ srv' = [srv EXCEPT !.valid = @ \cup {<<srv.next>>}, !.next = @ + 1]
  /\ lastOp' = NoOp
  /\ UNCHANGED <<clock, at_file, proc, mem, gen>>

\* Trader(...) in a fresh process; the clock readings of lines 62 and 127
\* fall in the same tick
ConstructWith(inputs) ==
  /\ proc = "down"
  /\ \E e \in inputs :
     \E r \in {TraderInit(rt_file, at_file, srv, e, clock)} :
          /\ InitInputsUsed(e, r.log)
          /\ r.srv.next <= MaxTok + 1
          /\ rt_file' = r.rt
          /\ at_file' = r.at
          /\ srv' = r.srv
          /\ proc' = IF r.outcome = "returned" THEN "up" ELSE "down"
          /\ mem' = IF r.outcome = "returned" THEN r.mem ELSE BlankMem
          /\ lastOp' = Op("init", r.outcome, r.log, <<>>, r.mem)
  /\ UNCHANGED <<clock, gen>>

Construct == ConstructWith(InitInputs)

\* the process ends: what a caller does with an exception of a method
Survives(o) == o # "SystemExit"

\* tr.get_new_refresh_token(token) called by the user of a Trader
CallGetNewRefreshTokenWith(inputs) ==
  /\ proc = "up"
  /\ \E e \in inputs :
     \E token \in {mem.refresh_token, Strip(rt_file.content)} \cup srv.presented :
     \E r \in {GetNewRefreshToken(mem, rt_file, at_file, srv, token, e, clock)} :
          /\ ExchangeInputsUsed(e, r.log)
          /\ r.srv.next <= MaxTok + 1
          /\ rt_file' = r.rt
          /\ at_file' = r.at
          /\ srv' = r.srv
          /\ proc' = IF Survives(r.outcome) THEN "up" ELSE "down"
          /\ mem' = IF Survives(r.outcome) THEN r.mem ELSE BlankMem
          /\ lastOp' = Op("get_new_refresh_token", r.outcome, r.log, token, r.mem)
  /\ UNCHANGED <<clock, gen>>

CallGetNewRefreshToken == CallGetNewRefreshTokenWith(ExchangeInputs)

\* tr.get_server_time()
CallGetServerTime ==
  /\ proc = "up"
  /\ \E res \in ApiOutcomes :
     \E r \in {GetServerTime(mem, res)} :
          /\ proc' = IF Survives(r.outcome) THEN "up" ELSE "down"
          /\ mem' = IF Survives(r.outcome) THEN mem ELSE BlankMem
          /\ lastOp' = Op("get_server_time", r.outcome, r.log, <<>>, mem)
  /\ UNCHANGED <<clock, rt_file, at_file, srv, gen>>

\* tr.get_account_positions(accounttype)
CallGetAccountPositions ==
  /\ proc = "up"
  /\ \E res \in ApiOutcomes, t \in AccountTypes :
     \E r \in {GetAccountPositions(mem, t, res)} :
          /\ proc' = IF Survives(r.outcome) THEN "up" ELSE "down"
          /\ mem' = IF Survives(r.outcome) THEN mem ELSE BlankMem
          /\ lastOp' = Op("get_account_positions", r.outcome, r.log, t, mem)
  /\ UNCHANGED <<clock, rt_file, at_file, srv, gen>>

\* the program that created the Trader ends
ProcessEnd ==
  /\ proc = "up"
  /\ proc' = "down"
  /\ mem' = BlankMem
  /\ lastOp' = NoOp
  /\ UNCHANGED <<clock, rt_file, at_file, srv, gen>>

Next ==
  \/ Tick
  \/ MintBootstrap
  \/ Construct
  \/ CallGetNewRefreshToken
  \/ CallGetServerTime
  \/ CallGetAccountPositions
  \/ ProcessEnd

Spec == Init /\ [][Next]_vars

\* ================================================================ claims
EvIdx(e) == {i \in DOMAIN lastOp.log : lastOp.log[i].ev = e}
NumEv(e) == Cardinality(EvIdx(e))
IsInit == lastOp.op = "init"
IsRefresh == lastOp.op = "get_new_refresh_token"
IsEndpoint == lastOp.op \in {"get_server_time", "get_account_positions"}

\* the persisted record the constructor found parses, and its expiry_date
CachedParsed == lastOp.pre_at.kind = "json" /\ lastOp.pre_at.rd.expiry_date.ok
CachedExpiry == lastOp.pre_at.rd.expiry_date.sec * TicksPerSec

\* C1 as claimed: an endpoint method never sends an access token whose
\* expiry_date is before the time of the request.
C1_EndpointNeverSendsExpired ==
  IsEndpoint =>
    \A i \in EvIdx("api") : lastOp.log[i].exp.t >= lastOp.now

\* C1 amended: expiry is looked at during construction only. Every
\* authenticated request the constructor sends carries a token whose
\* expiry_date is not before the constructor's clock reading (an expired
\* cached record is replaced by an exchange first); an endpoint method sends
\* the stored token as it is, makes no exchange and leaves the record alone.
C1_ExpiryCheckedAtConstructionOnly ==
  /\ IsInit =>
       \A i \in EvIdx("api") :
         /\ lastOp.log[i].exp.kind \in {"str", "datetime"}
         /\ lastOp.log[i].exp.t >= lastOp.now
  /\ IsEndpoint =>
       /\ NumEv("exchange") = 0
       /\ lastOp.post_mem = lastOp.pre_mem
       /\ \A i \in EvIdx("api") : lastOp.log[i].tok = lastOp.pre_mem.access_token

\* C1 witness: a construction that found an expired cached record, exchanged
\* and then sent its accounts request.
C1_Witness ==
  /\ IsInit /\ CachedParsed /\ CachedExpiry < lastOp.now
  /\ lastOp.outcome = "returned"
  /\ NumEv("exchange") = 1 /\ NumEv("api") = 1

\* C2: a construction that finds a cached record with expiry_date >= now
\* (equality included) sends the confirming accounts request with the
\* persisted token, and when that request succeeds it sends no exchange
\* request, neither reads nor writes the rt_file, leaves accessToken.json as
\* it was and holds the persisted access_token and token_type.
C2_CachedLiveReused ==
  (IsInit /\ CachedParsed /\ CachedExpiry >= lastOp.now)
  => /\ Len(lastOp.log) >= 2
     /\ lastOp.log[2].ev = "api"
     /\ lastOp.log[2].tok = lastOp.pre_at.rd.access_token
     /\ lastOp.log[2].res = "ok" =>
          /\ lastOp.outcome = "returned"
          /\ NumEv("exchange") = 0
          /\ NumEv("read_rt") = 0
          /\ NumEv("write_rt") = 0
          /\ NumEv("write_at") = 0
          /\ rt_file = lastOp.pre_rt
          /\ at_file = lastOp.pre_at
          /\ mem.access_token = lastOp.pre_at.rd.access_token
          /\ mem.token_type = lastOp.pre_at.rd.token_type

\* C2 witness: such a construction with expiry_date equal to now.
C2_Witness ==
  /\ IsInit /\ CachedParsed /\ CachedExpiry = lastOp.now
  /\ lastOp.outcome = "returned" /\ Len(lastOp.log) = 2
  /\ proc = "up"

\* the construction went down the re-authentication path because the cached
\* record was absent, unparsable or expired
ColdStart == IsInit /\ (~CachedParsed \/ CachedExpiry < lastOp.now)

\* tok is c without its leading and trailing whitespace
TrimOf(tok, c) ==
  /\ tok = <<>> \/ (tok[1] # WS /\ tok[Len(tok)] # WS)
  /\ \E i, j \in 0..Len(c) :
       /\ i + j <= Len(c)
       /\ tok = SubSeq(c, i + 1, Len(c) - j)
       /\ \A k \in 1..i : c[k] = WS
       /\ \A k \in (Len(c) - j + 1)..Len(c) : c[k] = WS

\* the cached accounts whose type is t up to case
Matching(t) ==
  {i \in DOMAIN mem.accounts : LowerStr(mem.accounts[i].type) = LowerStr(t)}

\* exactly one exchange request, carrying the trimmed content of the rt_file
OneExchangeFromRtFile ==
  /\ NumEv("exchange") = 1
  /\ \A i \in EvIdx("exchange") :
       TrimOf(lastOp.log[i].tok, lastOp.pre_rt.content)

\* accessToken.json holds the record just obtained
AtFileRewritten ==
  /\ \E i \in EvIdx("write_at") : lastOp.log[i].res = "ok"
  /\ at_file.kind = "json"
  /\ at_file.rd.refresh_token = mem.refresh_token
  /\ at_file.rd.access_token = mem.access_token

\* the rt_file holds the refresh token just obtained
RtFileRewritten ==
  /\ \E i \in EvIdx("write_rt") : lastOp.log[i].res = "ok"
  /\ rt_file = RtFile(mem.refresh_token)

\* find_account_number gives the number of a fetched account of that type
FindsFetchedAccount ==
  /\ mem.accounts = ServerAccounts
  /\ \A t \in AccountTypes :
       Matching(t) # {} =>
         \E i \in Matching(t) : FindAccountNumber(mem, t) = mem.accounts[i].number

ConfirmFailed ==
  /\ IsInit /\ CachedParsed /\ CachedExpiry >= lastOp.now
  /\ Len(lastOp.log) >= 2
  /\ lastOp.log[2].ev = "api" /\ lastOp.log[2].res # "ok"

C5_ConstructionReturnsOrExits ==
  IsInit =>
    /\ lastOp.outcome \in {"returned", "SystemExit"}
    /\ lastOp.outcome = "returned" =>
         /\ proc = "up"
         /\ mem.access_token # <<>> /\ mem.token_type # ""
         /\ mem.has_accounts /\ mem.accounts = ServerAccounts
    /\ lastOp.outcome = "SystemExit" => proc = "down"
    /\ (\E i \in EvIdx("read_rt") : lastOp.log[i].res # "ok") =>
         lastOp.outcome = "SystemExit" /\ NumEv("exchange") = 0
    /\ (\E i \in EvIdx("exchange") : lastOp.log[i].res # "ok") =>
         lastOp.outcome = "SystemExit"
    /\ (\E i \in EvIdx("write_at") : lastOp.log[i].res # "ok") =>
         lastOp.outcome = "SystemExit"
    /\ (\E i, j \in DOMAIN lastOp.log :
          /\ i < j
          /\ lastOp.log[i].ev = "exchange" /\ lastOp.log[i].res = "ok"
          /\ lastOp.log[j].ev = "api" /\ lastOp.log[j].res # "ok") =>
         lastOp.outcome = "SystemExit"

\* C5 witness: a construction that exchanged successfully and ended the
\* process because the accounts request after the exchange got no response.
C5_Witness ==
  /\ IsInit /\ lastOp.outcome = "SystemExit" /\ proc = "down"
  /\ \E i \in EvIdx("exchange") : lastOp.log[i].res = "ok"
  /\ \E i \in EvIdx("api") : lastOp.log[i].res = "noresp"

\* C6: when the authorization server answers get_new_refresh_token with an
\* error status the call raises, the credential record is what it was before
\* the call, and neither file is written.
C6_FailedExchangeKeepsRecord ==
  (IsRefresh /\ \E i \in EvIdx("exchange") : lastOp.log[i].res = "http") =>
    /\ lastOp.outcome \notin {"returned", "SystemExit"}
    /\ lastOp.post_mem = lastOp.pre_mem
    /\ mem = lastOp.pre_mem
    /\ proc = "up"
    /\ NumEv("write_rt") = 0 /\ NumEv("write_at") = 0
    /\ rt_file = lastOp.pre_rt
    /\ at_file = lastOp.pre_at

\* C6 witness: a get_new_refresh_token call on a constructed object that the
\* server answered with an error status.
C6_Witness ==
  /\ IsRefresh /\ lastOp.outcome = "Exception"
  /\ lastOp.log[1].res = "http"
  /\ mem.access_token # <<>>

ExchangeAccepted == \E i \in EvIdx("exchange") : lastOp.log[i].res = "ok"

\* the token pair the authorization server issued last
LastIssued == <<srv.next - 1>>

\* C7 as claimed: once get_new_refresh_token has stored the expires_in of an
\* accepted exchange, whether it then returns or raises, the expiry_date of
\* the object is the time of that exchange plus that expires_in.
C7_ExpiryBelongsToExchange ==
  (IsRefresh /\ ExchangeAccepted) =>
    /\ mem.access_token = LastIssued
    /\ mem.expiry_date =
         [kind |-> "datetime",
          t |-> lastOp.now + mem.expires_in * TicksPerSec]

\* C8: after an accepted exchange both writes are attempted, the
\* accessToken.json write directly after the rt_file write whatever became
\* of that one; a failed rt_file write followed by a successful
\* accessToken.json write makes get_new_refresh_token return with the new
\* record in memory, and a failed accessToken.json write makes it raise
\* whether or not the rt_file write succeeded.
C8_WritesIndependent ==
  ((IsRefresh \/ IsInit) /\ ExchangeAccepted) =>
    /\ NumEv("write_rt") = 1 /\ NumEv("write_at") = 1
    /\ \A i \in EvIdx("write_rt") : lastOp.log[i + 1].ev = "write_at"
    /\ \A i \in EvIdx("write_at") :
         /\ lastOp.log[i].res # "ok" => lastOp.outcome # "returned"
         /\ (IsRefresh /\ lastOp.log[i].res # "ok") =>
              lastOp.outcome = "Exception"
         /\ (IsRefresh /\ lastOp.log[i].res = "ok") =>
              /\ lastOp.outcome = "returned"
              /\ proc = "up"
              /\ mem.refresh_token = LastIssued
              /\ mem.access_token = LastIssued

\* C8 witness: a get_new_refresh_token call whose rt_file write failed and
\* whose accessToken.json write succeeded.
C8_Witness ==
  /\ IsRefresh /\ ExchangeAccepted /\ lastOp.outcome = "returned"
  /\ \E i \in EvIdx("write_rt") : lastOp.log[i].res = "open_fail"
  /\ rt_file = lastOp.pre_rt
  /\ at_file # lastOp.pre_at

\* C9: with an authorization server that invalidates every token presented
\* to it, no token is accepted twice, an exchange request carrying a token
\* the server has seen before is never accepted, and a
\* get_new_refresh_token call with such a token ends with an error and
\* leaves the record as it was (a construction with such a token ends the
\* process).
C9_TokenExchangedOnce ==
  /\ ~srv.dup
  /\ \A i \in EvIdx("exchange") :
       lastOp.log[i].tok \in lastOp.pre_presented => lastOp.log[i].res # "ok"
  /\ (IsRefresh /\ lastOp.arg \in lastOp.pre_presented) =>
       /\ lastOp.outcome \in {"Exception", "UnboundLocalError"}
       /\ proc = "up"
       /\ mem = lastOp.pre_mem
  /\ (IsInit /\ \E i \in EvIdx("exchange") :
                  lastOp.log[i].tok \in lastOp.pre_presented) =>
       lastOp.outcome = "SystemExit"

\* C9 witness: a get_new_refresh_token call with a token that an earlier
\* exchange had been accepted for, ending with an error.
C9_Witness ==
  /\ IsRefresh /\ lastOp.arg \in lastOp.pre_presented
  /\ lastOp.arg \in srv.exchanged
  /\ lastOp.log[1].res = "http"
  /\ lastOp.outcome = "Exception"
  /\ mem.access_token # <<>>

\* the endpoint call named an account type no cached account has
UnknownAccount ==
  /\ lastOp.op = "get_account_positions"
  /\ \A i \in DOMAIN lastOp.pre_mem.accounts :
       LowerStr(lastOp.pre_mem.accounts[i].type) # LowerStr(lastOp.arg)

EndpointFailed ==
  IsEndpoint /\ (UnknownAccount \/ \E i \in EvIdx("api") : lastOp.log[i].res # "ok")

MaxAccts == 3

CachedTypes == { <<"T">>, <<"t">>, <<"M">>, <<"t", "M">> }
LookupTypes == AccountTypes \cup { <<"T", "m">> }

\* the cached lists: the i-th account has number i
CachedLists ==
  UNION { [1..n -> CachedTypes] : n \in 0..MaxAccts }

AccountsOf(ts) == [i \in 1..Len(ts) |-> [type |-> ts[i], number |-> i]]

\* a Trader as construction leaves it, but for the accounts
ConstructedMem ==
  [StoreExpiry(StoreResponse(BlankMem, ServerBody(1, 1)), "ok", 0)
     EXCEPT !.userid = UserId, !.has_accounts = TRUE]

InitFind ==
  /\ clock = 0
  /\ at_file = AtMissing
  /\ rt_file = RtMissing
  /\ srv = ServerInit({}, 1)
  /\ proc = "up"
  /\ \E ts \in CachedLists : mem = [ConstructedMem EXCEPT !.accounts = AccountsOf(ts)]
  /\ lastOp = NoOp
  /\ gen = NoGen

\* tr.find_account_number(accounttype): lines 360-363 send no request, write
\* no file and assign no attribute
CallFindAccountNumber ==
  /\ proc = "up"
  /\ \E t \in LookupTypes :
       lastOp' = [Op("find_account_number", "returned", <<>>, t, mem)
                    EXCEPT !.ret = FindAccountNumber(mem, t)]
  /\ UNCHANGED <<clock, rt_file, at_file, srv, proc, mem, gen>>

NextFind == CallFindAccountNumber

SpecFind == InitFind /\ [][NextFind]_vars

IsFind == lastOp.op = "find_account_number"

\* a and b are the same string up to the case of their letters
CaseEq(a, b) ==
  /\ Len(a) = Len(b)
  /\ \A i \in 1..Len(a) :
       \/ a[i] = b[i]
       \/ {a[i], b[i]} \in { {"T", "t"}, {"M", "m"} }

\* the positions of the cached accounts of the type looked up
Hits == {i \in DOMAIN mem.accounts : CaseEq(mem.accounts[i].type, lastOp.arg)}

\* C11: find_account_number returns the number of the first cached account
\* whose type equals the argument up to case, None when there is none, and
\* sends no request and changes neither the cache nor the record.
C11_FirstMatchIgnoringCase ==
  IsFind =>
    /\ Hits = {} => lastOp.ret = NoAccount
    /\ Hits # {} =>
         \E i \in Hits :
           /\ \A j \in Hits : i <= j
           /\ lastOp.ret = mem.accounts[i].number
    /\ lastOp.outcome = "returned"
    /\ lastOp.log = <<>>
    /\ mem = lastOp.pre_mem
    /\ rt_file = lastOp.pre_rt /\ at_file = lastOp.pre_at

\* C11 witness: a lookup whose argument differs in case from the type of the
\* account found, with a later account of that type in the cache too.
C11_Witness ==
  /\ IsFind
  /\ \E i, j \in Hits :
       /\ i < j
       /\ lastOp.ret = mem.accounts[i].number
       /\ mem.accounts[i].type # lastOp.arg
       /\ \A k \in Hits : i <= k

\* ============================================== get_all (date chunking)
\* Instants and durations are counted in ticks of 1/TicksPerDay of a day.
TicksPerDay == 2
MaxStart == 1
MaxEnd == 180
MaxDrift == 1
MaxCalls == 2

StrideDays == 29
SingleDays == 29
LoopDays == 29
TailDays == 1

\* timedelta.days: the whole days of a duration, rounded towards minus
\* infinity (timedelta(hours=-12).days is -1)
Days(dlt) == dlt \div TicksPerDay

IsSingle_nonneg(dlt) == 0 <= Days(dlt) /\ Days(dlt) <= SingleDays
\* if dlt.days <= 29
IsSingle(dlt) == Days(dlt) <= SingleDays

InLoop_30(dlt) == Days(dlt) > LoopDays + 1
\* while dlt.days > 29
InLoop(dlt) == Days(dlt) > LoopDays

HasTail_two(dlt) == Days(dlt) >= TailDays + 1
\* if dlt.days >= 1
HasTail(dlt) == Days(dlt) >= TailDays

PlusStride_30(t) == t + (StrideDays + 1) * TicksPerDay
\* startdatetime + td(days=29)
PlusStride(t) == t + StrideDays * TicksPerDay

\* js = f(self, startdatetime=s, enddatetime=e, ...); yield js
\* the query is made and the generator is suspended at the yield of line pc
YieldQuery(g, s, e, pc) ==
  [g EXCEPT !.pc = pc, !.queries = Append(@, <<s, e>>), !.total = @ + 1]

\* the body of inner from its first line to the first yield
Begin(g, now) ==
  LET enddatetime == IF g.end_none THEN now ELSE g.enddatetime
      b == [g EXCEPT !.enddatetime = enddatetime]
      dlt == enddatetime - g.startdatetime
  IN  IF IsSingle(dlt)
        THEN YieldQuery(b, g.startdatetime, enddatetime, "line204")
        ELSE LET idt == PlusStride(g.startdatetime)
             IN  YieldQuery([b EXCEPT !.idt = idt], g.startdatetime, idt, "line209")

\* startdatetime = idt; idt = startdatetime + thirdy_days;
\* dlt = enddatetime - startdatetime; then the loop test and, when it
\* fails, the tail test
Advance(g) ==
  LET startdatetime == g.idt
      idt == PlusStride(startdatetime)
      dlt == g.enddatetime - startdatetime
      a == [g EXCEPT !.startdatetime = startdatetime, !.idt = idt]
  IN  IF InLoop(dlt) THEN YieldQuery(a, startdatetime, idt, "line215")
      ELSE IF HasTail(dlt) THEN YieldQuery(a, startdatetime, g.enddatetime, "line221")
      ELSE [a EXCEPT !.pc = "done"]

\* next(generator): the body runs from where it is suspended to its next
\* yield, or to its end (StopIteration)
Resume(g, now) ==
  CASE g.pc = "created" -> Begin(g, now)
    [] g.pc = "line204" -> [g EXCEPT !.pc = "done"]
    [] g.pc \in {"line209", "line215"} -> Advance(g)
    [] g.pc = "line221" -> [g EXCEPT !.pc = "done"]

AtCall_eager(g, now) == Resume(g, now)
\* inner holds a yield: calling it builds the generator object and runs none
\* of its body
AtCall(g, now) == g

Starts == 0..MaxStart
Ends == 0..MaxEnd
ChunkNows == {MaxEnd - 31}
Live(g) == g.pc \notin {"none", "done"}

InitChunk ==
  /\ clock \in ChunkNows
  /\ at_file = AtMissing
  /\ rt_file = RtMissing
  /\ srv = ServerInit({}, 1)
  /\ proc = "up"
  /\ mem = [ConstructedMem EXCEPT !.accounts = ServerAccounts]
  /\ lastOp = NoOp
  /\ gen = NoGen

\* g = tr.get_account_activities(startdatetime, enddatetime) and the other
\* @get_all operations: the caller gets a generator; one it held before is
\* dropped wherever it was suspended
NewGen(s, none, e) ==
  [pc |-> "created", calls |-> gen.calls + 1, arg_start |-> s, end_none |-> none,
   startdatetime |-> s, enddatetime |-> e, idt |-> 0, queries |-> <<>>,
   taken |-> 0, earlier |-> gen.earlier + gen.taken, total |-> gen.total,
   called_at |-> clock]

CallChunked ==
  /\ proc = "up"
  /\ gen.calls < MaxCalls
  /\ \E s \in Starts :
       \/ \E e \in Ends : gen' = AtCall(NewGen(s, FALSE, e), clock)
       \/ gen' = AtCall(NewGen(s, TRUE, 0), clock)
  /\ UNCHANGED <<clock, rt_file, at_file, srv, proc, mem, lastOp>>

\* the consumer asks for the next element
NextElement ==
  /\ Live(gen)
  /\ \E r \in {Resume(gen, clock)} :
       gen' = IF r.pc = "done" THEN r ELSE [r EXCEPT !.taken = @ + 1]
  /\ UNCHANGED <<clock, rt_file, at_file, srv, proc, mem, lastOp>>

\* time passes while the caller holds a generator whose end was omitted (the
\* only case in which inner reads the clock)
ChunkTick ==
  /\ Live(gen)
  /\ gen.end_none
  /\ clock - gen.called_at < MaxDrift
  /\ clock' = clock + 1
  /\ UNCHANGED <<rt_file, at_file, srv, proc, mem, lastOp, gen>>

NextChunk ==
  \/ CallChunked
  \/ NextElement
  \/ ChunkTick

SpecChunk == InitChunk /\ [][NextChunk]_vars

\* ------------------------------------------------------ chunking claims
Day == TicksPerDay
Span == gen.enddatetime - gen.arg_start
Started == gen.pc \notin {"none", "created"}
Finished == gen.pc = "done"
Query(s, e) == <<s, e>>
QueryLen(q) == q[2] - q[1]
ChunkTypeOK == gen.pc \in {"none", "created", "line204", "line209", "line215", "line221", "done"}

\* C12: whenever end - start <= 29 days (end = start and end < start
\* included, at sub-day granularity), the chunked operation invokes the query
\* function exactly once, with exactly (start, end), and yields exactly one
\* result.
C12_ShortSpanOneQuery ==
  (Started /\ Span <= SingleDays * Day) =>
     /\ gen.queries = << Query(gen.arg_start, gen.enddatetime) >>
     /\ gen.taken <= 1
     /\ Finished => gen.taken = 1

C12_Witness ==
  /\ Finished
  /\ ~gen.end_none
  /\ Span = -1
  /\ gen.queries = << Query(gen.arg_start, gen.enddatetime) >>
  /\ gen.taken = 1

\* the range limit of the service that get_all works around
LimitDays == 30
Queried == {gen.queries[i] : i \in DOMAIN gen.queries}
LastQuery == gen.queries[Len(gen.queries)]

\* C13 (as stated): every sub-range (s, e) passed to the query function
\* satisfies e - s <= 29 days, the single-query case and the final tail
\* included.
C13_NoQueryOver29Days ==
  \A q \in Queried : QueryLen(q) <= StrideDays * Day

\* C13 (amended): every sub-range passed to the query function is shorter
\* than 30 days; the single query and the final tail may exceed 29 days
\* by less than a day, a stride is exactly 29 days.
C13_NoQueryReaches30Days ==
  /\ \A q \in Queried : QueryLen(q) < LimitDays * Day
  /\ gen.pc \in {"line209", "line215"} => QueryLen(LastQuery) = StrideDays * Day

C13_Witness ==
  /\ gen.pc = "line221"
  /\ Len(gen.queries) = 2
  /\ QueryLen(LastQuery) > StrideDays * Day
  /\ QueryLen(LastQuery) < LimitDays * Day

Stride == StrideDays * Day
\* the sub-ranges the statement of C14 describes: the full strides, then the
\* remainder (end - start) mod 29 days iff it is at least 1 day
StatedChunks(s, e) ==
  LET n == (e - s) \div Stride
      rem == (e - s) % Stride
      full == [k \in 1..n |-> Query(s + (k - 1) * Stride, s + k * Stride)]
  IN  IF rem >= TailDays * Day THEN Append(full, Query(s + n * Stride, e)) ELSE full

\* C14 (as stated): when end - start > 29 days the sub-ranges queried are
\* contiguous strides of exactly 29 days from start, followed by a final
\* sub-range of length (end - start) mod 29 days ending at end iff that
\* remainder is at least 1 day (a remainder under 1 day is dropped).
C14_StridesThenRemainder ==
  (Finished /\ Span > Stride) => gen.queries = StatedChunks(gen.arg_start, gen.enddatetime)

\* C14 (amended): when end - start >= 30 days the sub-ranges queried are
\* contiguous from start and increasing, every one but the last is exactly
\* 29 days long, and the last always ends at end and is at least 1 day and
\* less than 30 days long (no remainder is dropped; one under a day is
\* absorbed by the last sub-range); when 29 days < end - start < 30 days
\* the only sub-range queried is (start, end).
C14_StridesThenTailToEnd ==
  LET q == gen.queries
      n == Len(q)
  IN  /\ (Finished /\ Span >= LimitDays * Day) =>
           /\ n >= 2
           /\ q[1][1] = gen.arg_start
           /\ \A i \in 1..(n - 1) : q[i + 1][1] = q[i][2] /\ QueryLen(q[i]) = Stride
           /\ q[n][2] = gen.enddatetime
           /\ QueryLen(q[n]) >= TailDays * Day
           /\ QueryLen(q[n]) < LimitDays * Day
      /\ (Finished /\ Span > Stride /\ Span < LimitDays * Day) =>
           q = << Query(gen.arg_start, gen.enddatetime) >>

\* a 74-day range gives [0,29), [29,58), [58,74)
C14_Witness ==
  /\ Finished
  /\ gen.arg_start = 0
  /\ gen.enddatetime = 74 * Day
  /\ gen.queries = << Query(0, 29 * Day), Query(29 * Day, 58 * Day), Query(58 * Day, 74 * Day) >>

\* ------------------------------------------------- persistence round trip
\* the instants from which a later constructor may look at the record
LaterNows == clock..(MaxClock + 2 * TicksPerSec)
\* now lies in the part of a second that the written string leaves out
InTruncated(now) ==
  /\ ParseExpiry(at_file.rd.expiry_date) < now
  /\ now <= mem.expiry_date.t

\* C15: the record that get_new_refresh_token writes to accessToken.json,
\* whatever the instant of issuance (a whole second included), is parsed by
\* the constructor, and the parsed expiry_date gives against every later
\* now the verdict the expiry_date in memory gives, except for a now inside
\* the truncated part of a second.
C15_RoundTrip ==
  (lastOp.op \in {"init", "get_new_refresh_token"} /\ AtFileRewritten) =>
     /\ ParseOk(at_file.rd.expiry_date)
     /\ \A now \in LaterNows :
          \/ InTruncated(now)
          \/ IsLive(ParseExpiry(at_file.rd.expiry_date), now) = IsLive(mem.expiry_date.t, now)

CeilDiv(a, b) == 0 - ((0 - a) \div b)
\* the number of results of a call over a span
Results(span) ==
  IF span < LimitDays * Day THEN 1 ELSE (span - TailDays * Day) \div Stride + 1

C18_EndBoundAtCall ==
  (gen.end_none /\ Started) =>
     /\ gen.enddatetime = gen.called_at
     /\ Finished => LastQuery[2] = gen.called_at

\* ---------------------------------------------------------------- laziness
\* C19: the query function has been invoked exactly as many times as the
\* consumer has taken elements: none when the generator is handed out, none
\* ahead of a request, none after the consumer stops; a new call makes its
\* own queries from its first sub-range on, so that over all calls the
\* invocations number the elements taken.
C19_Lazy ==
  /\ Len(gen.queries) = gen.taken
  /\ gen.total = gen.earlier + gen.taken
  /\ gen.pc = "created" => gen.queries = <<>>
  /\ (Started /\ gen.queries # <<>>) => gen.queries[1][1] = gen.arg_start

\* a second call, two elements into its sequence, after a first call of
\* which the consumer took one element
C19_Witness ==
  /\ gen.calls = 2
  /\ gen.earlier = 1
  /\ gen.taken = 2
  /\ gen.pc = "line215"
  /\ gen.total = 3

\* ------------------------------------------------- the bootstrap secret
\* the token a construction read from the rt_file and presented
Presented == {lastOp.log[i].tok : i \in EvIdx("exchange")}
\* the record the construction held when it ended is lastOp.post_mem
RtWriteFailed == \E i \in EvIdx("write_rt") : lastOp.log[i].res # "ok"
\* a construction reads the rt_file at most once and writes the token it
\* read into no accessToken.json, and after an accepted exchange the
\* in-memory record holds the newly issued refresh token instead of it
ReadOnceAndReplacedInMemory ==
  /\ NumEv("read_rt") <= 1
  /\ \A b \in Presented :
       /\ TrimOf(b, lastOp.pre_rt.content)
       /\ (at_file # lastOp.pre_at /\ at_file.kind = "json") =>
            (at_file.rd.refresh_token # b /\ at_file.rd.access_token # b)
       /\ ExchangeAccepted => (lastOp.post_mem.refresh_token = LastIssued /\ lastOp.post_mem.refresh_token # b)

YieldAccounts(m) ==
  [i \in 1..Len(m.accounts) |-> Ev("yield", m.accounts[i].type, "ok")]

\* list(tr.get_accounts())
CallGetAccounts ==
  /\ proc = "up"
  /\ lastOp' = Op("get_accounts", "returned", YieldAccounts(mem), <<>>, mem)
  /\ UNCHANGED <<clock, rt_file, at_file, srv, proc, mem, gen>>

\* the life of a Trader with every operation that reads the cache
NextLife ==
  \/ Next
  \/ CallGetAccounts
  \/ CallFindAccountNumber

SpecLife == Init /\ [][NextLife]_vars

AfterConstruction ==
  lastOp.op \in {"get_new_refresh_token", "get_accounts", "find_account_number",
                 "get_server_time", "get_account_positions"}
FetchesOk == {i \in EvIdx("api") : lastOp.log[i].res = "ok"}
SameCache(a, b) ==
  a.accounts = b.accounts /\ a.userid = b.userid /\ a.has_accounts = b.has_accounts
LifeTypeOK == proc \in {"up", "down"}

\* C21: a construction that returns has fetched the account list and the
\* user id successfully exactly once; as long as the Trader lives they stay
\* what that fetch stored: get_new_refresh_token, get_accounts,
\* find_account_number and the endpoint methods leave them as they were and
\* fetch no accounts; and a failed accounts fetch leaves them as they were.
C21_AccountsFetchedOnceAndKept ==
  /\ proc = "up" =>
       (mem.has_accounts /\ mem.userid = UserId /\ mem.accounts = ServerAccounts)
  /\ (IsInit /\ lastOp.outcome = "returned") => Cardinality(FetchesOk) = 1
  /\ (IsInit /\ FetchesOk = {}) => SameCache(lastOp.post_mem, lastOp.pre_mem)
  /\ AfterConstruction =>
       /\ SameCache(lastOp.post_mem, lastOp.pre_mem)
       /\ ~IsEndpoint => NumEv("api") = 0
  /\ lastOp.op = "get_accounts" => Len(lastOp.log) = Len(mem.accounts)

\* a Trader that has replaced its tokens by get_new_refresh_token and still
\* holds the accounts its construction fetched
C21_Witness ==
  /\ lastOp.op = "get_new_refresh_token" /\ lastOp.outcome = "returned"
  /\ lastOp.post_mem.access_token # lastOp.pre_mem.access_token
  /\ proc = "up" /\ mem.accounts = ServerAccounts /\ mem.userid = UserId

\* ------------------------------------------------------ store agreement
\* get_new_refresh_token, called by the user or by the constructor, got to
\* its end: the accessToken.json write succeeded
RefreshReturned ==
  /\ IsRefresh \/ IsInit
  /\ \E i \in EvIdx("write_at") : lastOp.log[i].res = "ok"

\* C22: whenever get_new_refresh_token returns normally, the refresh_token
\* in memory is the one in accessToken.json and, unless the rt_file write
\* failed, the content of the rt_file; access_token, token_type and
\* expires_in in memory are those in accessToken.json; and the api_server a
\* constructor loads from accessToken.json is the api_server in memory.
C22_StoresAgree ==
  RefreshReturned =>
     /\ IsRefresh => lastOp.outcome = "returned"
     /\ at_file.kind = "json"
     /\ at_file.rd.refresh_token = lastOp.post_mem.refresh_token
     /\ at_file.rd.access_token = lastOp.post_mem.access_token
     /\ at_file.rd.token_type = lastOp.post_mem.token_type
     /\ at_file.rd.expires_in = lastOp.post_mem.expires_in
     /\ LoadRecord(BlankMem, at_file.rd).api_server = lastOp.post_mem.api_server
     /\ ~RtWriteFailed => rt_file = RtFile(lastOp.post_mem.refresh_token)

\* a refresh by the user that wrote both files; the api_server in the file
\* still has the last character that the one in memory has lost
C22_Witness ==
  /\ IsRefresh /\ lastOp.outcome = "returned" /\ ~RtWriteFailed
  /\ rt_file.content = mem.refresh_token
  /\ at_file.rd.refresh_token = mem.refresh_token
  /\ at_file.rd.api_server # mem.api_server
  /\ StripLast(at_file.rd.api_server) = mem.api_server

\* ===================================== the credential chain over restarts
\* the runs in which every response to an exchange request reaches the
\* client and every rt_file write succeeds
Reliable(e) == e.net # "lost_resp" /\ e.rtw = "ok"
ChainInitInputs == {e \in InitInputs : Reliable(e)}
ChainExchangeInputs == {e \in ExchangeInputs : Reliable(e)}

ConstructChain == ConstructWith(ChainInitInputs)
RefreshChain == CallGetNewRefreshTokenWith(ChainExchangeInputs)

NextChain ==
  \/ Tick
  \/ MintBootstrap
  \/ ConstructChain
  \/ RefreshChain
  \/ ProcessEnd

SpecChain == Init /\ [][NextChain]_vars

ChainTypeOK == proc \in {"up", "down"}

\* C23: when every response to an exchange request reaches the client and
\* every rt_file write succeeds, the token in the rt_file has never been
\* presented to the authorization server; so the token a construction reads
\* from the rt_file on its way to re-authentication is presented for the
\* first time, also after a refresh that failed on the accessToken.json
\* write or a construction that ended on a failed accounts fetch, and the
\* exchange is accepted whenever the request reaches the server.
C23_RtTokenNeverPresented ==
  /\ rt_file.exists => Strip(rt_file.content) \notin srv.presented
  /\ IsInit =>
       \A i \in EvIdx("exchange") :
          /\ lastOp.log[i].tok \notin lastOp.pre_presented
          /\ lastOp.log[i].res \in {"ok", "noresp"}
          /\ (lastOp.log[i].res = "noresp") => srv.presented = lastOp.pre_presented

\* a construction that found the accessToken.json an earlier refresh had
\* spoilt, and whose exchange of the token the rt_file held was accepted
C23_Witness ==
  /\ IsInit /\ lastOp.pre_at.kind = "corrupt"
  /\ lastOp.pre_presented # {}
  /\ \E i \in EvIdx("exchange") :
        lastOp.log[i].res = "ok" /\ lastOp.log[i].tok \notin lastOp.pre_presented

====
